---- MODULE Spec2Model ----
(***************************************************************************)
(* Model of netlify/edge-functions/traceable.js: the capture-and-export    *)
(* edge middleware.  The process-wide CONFIG object, the environment, the  *)
(* handler invocations (split at their await points) and the export tasks  *)
(* started by the invocations are the state.                               *)
(***************************************************************************)
EXTENDS Integers, Sequences, FiniteSets, TLC

\* ------------------------------------------------------------------------
\* Bounds of the model
\* ------------------------------------------------------------------------

\* number of handler invocations started in one run of the process
MaxInvocations == 2

\* number of times the environment is changed while the process runs
MaxEnvChanges == 1

\* ------------------------------------------------------------------------
\* JavaScript values and string built-ins
\* ------------------------------------------------------------------------

\* the value of an unset environment variable / a missing header
Undefined == "<undefined>"

\* the JS null of requestBody, responseBody and overrideStatus
Null == "<null>"

\* a string element / a number element of a parsed JSON array
Str(s) == [t |-> "str", v |-> s]
Num(n) == [t |-> "num", v |-> n]

Min(a, b) == IF a < b THEN a ELSE b
Max(a, b) == IF a > b THEN a ELSE b

\* String.prototype.endsWith
EndsWith(s, suf) ==
  /\ Len(s) >= Len(suf)
  /\ SubSeq(s, Len(s) - Len(suf) + 1, Len(s)) = suf

\* String.prototype.startsWith
StartsWith(s, pre) ==
  /\ Len(s) >= Len(pre)
  /\ SubSeq(s, 1, Len(pre)) = pre

\* String.prototype.indexOf(t) > -1
Contains(s, t) ==
  \E p \in 1..(Len(s) - Len(t) + 1) : SubSeq(s, p, p + Len(t) - 1) = t

\* String.prototype.toLowerCase on one character
LowerChar(c) ==
  CASE c = "A" -> "a" [] c = "B" -> "b" [] c = "C" -> "c" [] c = "D" -> "d"
    [] c = "E" -> "e" [] c = "F" -> "f" [] c = "G" -> "g" [] c = "H" -> "h"
    [] c = "I" -> "i" [] c = "J" -> "j" [] c = "K" -> "k" [] c = "L" -> "l"
    [] c = "M" -> "m" [] c = "N" -> "n" [] c = "O" -> "o" [] c = "P" -> "p"
    [] c = "Q" -> "q" [] c = "R" -> "r" [] c = "S" -> "s" [] c = "T" -> "t"
    [] c = "U" -> "u" [] c = "V" -> "v" [] c = "W" -> "w" [] c = "X" -> "x"
    [] c = "Y" -> "y" [] c = "Z" -> "z" [] OTHER -> c

RECURSIVE ToLowerCase(_)
ToLowerCase(s) ==
  IF Len(s) = 0 THEN "" ELSE LowerChar(Head(s)) \o ToLowerCase(Tail(s))

\* value of a decimal digit character, -1 for any other character
DigitVal(c) ==
  CASE c = "0" -> 0 [] c = "1" -> 1 [] c = "2" -> 2 [] c = "3" -> 3
    [] c = "4" -> 4 [] c = "5" -> 5 [] c = "6" -> 6 [] c = "7" -> 7
    [] c = "8" -> 8 [] c = "9" -> 9 [] OTHER -> -1

\* the leading run of decimal digits of s, accumulated into acc
RECURSIVE ParseDigits(_, _)
ParseDigits(s, acc) ==
  IF Len(s) = 0 \/ DigitVal(Head(s)) < 0
    THEN acc
    ELSE ParseDigits(Tail(s), acc * 10 + DigitVal(Head(s)))

\* s with its leading white space removed
RECURSIVE TrimStart(_)
TrimStart(s) ==
  IF Len(s) > 0 /\ Head(s) = " " THEN TrimStart(Tail(s)) ELSE s

\* parseInt(v, 10): leading white space, an optional sign, then the longest
\* run of digits; nan when there is no digit
ParseInt(v) ==
  LET t    == TrimStart(v)
      neg  == Len(t) > 0 /\ Head(t) = "-"
      sgn  == Len(t) > 0 /\ (Head(t) = "-" \/ Head(t) = "+")
      d    == IF sgn THEN Tail(t) ELSE t
  IN  IF Len(d) = 0 \/ DigitVal(Head(d)) < 0
        THEN [nan |-> TRUE, n |-> 0]
        ELSE [nan |-> FALSE,
              n   |-> IF neg THEN 0 - ParseDigits(d, 0) ELSE ParseDigits(d, 0)]

DigitChar(n) == SubSeq("0123456789", n + 1, n + 1)

\* String(n) for a number
RECURSIVE NatToString(_)
NatToString(n) ==
  IF n < 10 THEN DigitChar(n) ELSE NatToString(n \div 10) \o DigitChar(n % 10)

\* String(e) for an element of a parsed JSON array
JsString(e) ==
  IF e.t = "str" THEN e.v
  ELSE IF e.v < 0 THEN "-" \o NatToString(0 - e.v) ELSE NatToString(e.v)

\* ------------------------------------------------------------------------
\* Environment and configuration (traceable.js lines 7-88)
\* ------------------------------------------------------------------------

\* JSON.parse on the texts the environments below hold: the array it
\* returns, "other" for JSON that is not an array, "throw" for a SyntaxError
JSONparse(v) ==
  CASE v = "[\"TEXT\"]"           -> [t |-> "array", v |-> <<Str("TEXT")>>]
    [] v = "[\"example.com\"]"    -> [t |-> "array", v |-> <<Str("example.com")>>]
    [] v = "[\"other.org\"]"      -> [t |-> "array", v |-> <<Str("other.org")>>]
    [] v = "[\"/api/*\"]"         -> [t |-> "array", v |-> <<Str("/api/*")>>]
    [] v = "[\"/api*\",\"/form\"]" -> [t |-> "array",
                                       v |-> <<Str("/api*"), Str("/form")>>]
    [] v = "[1]"                  -> [t |-> "array", v |-> <<Num(1)>>]
    [] v = "[]"                   -> [t |-> "array", v |-> <<>>]
    [] v = "{\"a\":1}"            -> [t |-> "other"]
    [] v = "\"example.com\""      -> [t |-> "other"]
    [] OTHER                      -> [t |-> "throw"]

EnvNames ==
  {"TA_TPA_ADDRESS", "TA_SERVICE_NAME", "TA_ENVIRONMENT_NAME", "TA_GUID",
   "TA_DEBUG", "TA_MAX_SIZE_BYTES", "TA_CAPTURE_CONTENT_TYPES",
   "TA_CAPTURE_HOSTS", "TA_IGNORE_HOSTS", "TA_SKIP_ROUTES",
   "TRACEABLE_AGENT_TOKEN"}

\* no variable set
EnvNone == [n \in EnvNames |-> Undefined]

\* every variable set to a well-formed value
EnvFull ==
  [EnvNone EXCEPT !["TA_TPA_ADDRESS"] = "https://tpa.test",
                  !["TA_SERVICE_NAME"] = "shop",
                  !["TA_ENVIRONMENT_NAME"] = "prod",
                  !["TA_GUID"] = "g1",
                  !["TA_DEBUG"] = "TRUE",
                  !["TA_MAX_SIZE_BYTES"] = "2",
                  !["TA_CAPTURE_CONTENT_TYPES"] = "[\"TEXT\"]",
                  !["TA_CAPTURE_HOSTS"] = "[\"example.com\"]",
                  !["TA_IGNORE_HOSTS"] = "[\"example.com\"]",
                  !["TA_SKIP_ROUTES"] = "[\"/api/*\"]",
                  !["TRACEABLE_AGENT_TOKEN"] = "tok"]

\* empty and malformed values
EnvBad ==
  [EnvNone EXCEPT !["TA_SERVICE_NAME"] = "",
                  !["TA_DEBUG"] = "false",
                  !["TA_MAX_SIZE_BYTES"] = "abc",
                  !["TA_CAPTURE_CONTENT_TYPES"] = "json,xml",
                  !["TA_CAPTURE_HOSTS"] = "{\"a\":1}",
                  !["TA_IGNORE_HOSTS"] = "\"example.com\"",
                  !["TA_SKIP_ROUTES"] = "/api/*"]

\* a deny list, two exact skip routes (one ending in "*" without the "/")
\* and a zero cap
EnvIgnore ==
  [EnvNone EXCEPT !["TA_MAX_SIZE_BYTES"] = "0",
                  !["TA_IGNORE_HOSTS"] = "[\"other.org\"]",
                  !["TA_SKIP_ROUTES"] = "[\"/api*\",\"/form\"]"]

\* a skip route list whose element is not a string
EnvNumRoute ==
  [EnvNone EXCEPT !["TA_SKIP_ROUTES"] = "[1]"]

Envs == {EnvNone, EnvFull, EnvBad, EnvIgnore, EnvNumRoute}

\* let CONFIG = { ... }
DefaultConfig ==
  [tpa_address           |-> "https://REPLACE_WITH_TPA_HOST",
   service_name          |-> "website",
   traceable_guid        |-> "",
   environment_name      |-> "",
   capture_content_types |-> <<Str("json"), Str("xml"), Str("grpc"),
                               Str("x-www-form-urlencoded")>>,
   max_size_bytes        |-> 131072,
   capture_hosts         |-> <<>>,
   ignore_hosts          |-> <<>>,
   skip_routes           |-> <<>>,
   debug                 |-> FALSE]

\* getEnvVar(name) in environment e
getEnvVar(e, name) == e[name]

\* the test of override(): v !== undefined && String(v).length > 0
IsSet(v) == v # Undefined /\ Len(v) > 0

\* override(key, envName) with the identity transform
override(e, envName, prior) ==
  IF IsSet(getEnvVar(e, envName)) THEN getEnvVar(e, envName) ELSE prior

\* override('debug', 'TA_DEBUG', v => String(v).toLowerCase() === 'true')
overrideDebug(e, prior) ==
  IF IsSet(getEnvVar(e, "TA_DEBUG"))
    THEN ToLowerCase(getEnvVar(e, "TA_DEBUG")) = "true"
    ELSE prior

\* override('max_size_bytes', ...): NaN keeps CONFIG.max_size_bytes
overrideMaxSize(e, prior) ==
  IF IsSet(getEnvVar(e, "TA_MAX_SIZE_BYTES"))
    THEN IF ParseInt(getEnvVar(e, "TA_MAX_SIZE_BYTES")).nan
           THEN prior
           ELSE ParseInt(getEnvVar(e, "TA_MAX_SIZE_BYTES")).n
    ELSE prior

\* parseJson(v) throws inside: console.warn('Invalid JSON in env var:', e)
parseJsonWarns(v) == IsSet(v) /\ JSONparse(v).t = "throw"

\* a list override that clears the key when its value cannot be used
overrideListReset(e, envName, prior) ==
  IF IsSet(getEnvVar(e, envName))
    THEN IF JSONparse(getEnvVar(e, envName)).t = "array"
           THEN JSONparse(getEnvVar(e, envName)).v
           ELSE <<>>
    ELSE prior

\* const x = getEnvVar(..); if (x) { parsed = parseJson(x); if (parsed) CONFIG.k = parsed }
overrideList(e, envName, prior) ==
  IF IsSet(getEnvVar(e, envName)) /\ JSONparse(getEnvVar(e, envName)).t = "array"
    THEN JSONparse(getEnvVar(e, envName)).v
    ELSE prior

\* updateConfigFromEnv(): the CONFIG object after the call, from the CONFIG
\* object before it and the environment
updateConfigFromEnv(cfg, e) ==
  [tpa_address           |-> override(e, "TA_TPA_ADDRESS", cfg.tpa_address),
   service_name          |-> override(e, "TA_SERVICE_NAME", cfg.service_name),
   environment_name      |-> override(e, "TA_ENVIRONMENT_NAME", cfg.environment_name),
   traceable_guid        |-> override(e, "TA_GUID", cfg.traceable_guid),
   debug                 |-> overrideDebug(e, cfg.debug),
   max_size_bytes        |-> overrideMaxSize(e, cfg.max_size_bytes),
   capture_content_types |-> overrideList(e, "TA_CAPTURE_CONTENT_TYPES",
                                          cfg.capture_content_types),
   capture_hosts         |-> overrideList(e, "TA_CAPTURE_HOSTS", cfg.capture_hosts),
   ignore_hosts          |-> overrideList(e, "TA_IGNORE_HOSTS", cfg.ignore_hosts),
   skip_routes           |-> overrideList(e, "TA_SKIP_ROUTES", cfg.skip_routes)]

\* the console.warn calls of one updateConfigFromEnv()
configWarnings(e) ==
  {n \in {"TA_CAPTURE_CONTENT_TYPES", "TA_CAPTURE_HOSTS", "TA_IGNORE_HOSTS",
          "TA_SKIP_ROUTES"} : parseJsonWarns(getEnvVar(e, n))}

\* ------------------------------------------------------------------------
\* Filters (traceable.js lines 149-225)
\* ------------------------------------------------------------------------

\* the outcome of config.skip_routes.some(...) from element k on: "skip" when
\* a pattern matches, "pass" when none does, "throw" when pattern.endsWith is
\* called on an element that is not a string (TypeError)
\* a wildcard match that strips the whole "/*" and so takes "/api/*" for
\* every path that starts with "/api"
RECURSIVE someRouteStripSlash(_, _, _)
someRouteStripSlash(path, routes, k) ==
  IF k > Len(routes) THEN "pass"
  ELSE IF routes[k].t # "str" THEN "throw"
  ELSE IF EndsWith(routes[k].v, "/*")
    THEN IF StartsWith(path, SubSeq(routes[k].v, 1, Len(routes[k].v) - 2))
           THEN "skip"
           ELSE someRouteStripSlash(path, routes, k + 1)
    ELSE IF path = routes[k].v
           THEN "skip"
           ELSE someRouteStripSlash(path, routes, k + 1)

RECURSIVE someRoute(_, _, _)
someRoute(path, routes, k) ==
  IF k > Len(routes) THEN "pass"
  ELSE IF routes[k].t # "str" THEN "throw"
  ELSE IF EndsWith(routes[k].v, "/*")
    THEN IF StartsWith(path, SubSeq(routes[k].v, 1, Len(routes[k].v) - 1))
           THEN "skip"
           ELSE someRoute(path, routes, k + 1)
    ELSE IF path = routes[k].v
           THEN "skip"
           ELSE someRoute(path, routes, k + 1)

\* shouldSkipRoute(url, config)
shouldSkipRoute(url, config) == someRoute(url.pathname, config.skip_routes, 1)

staticExtensions ==
  <<".css", ".js", ".mjs", ".jpg", ".jpeg", ".png", ".gif", ".svg", ".ico",
    ".woff", ".woff2", ".eot", ".ttf", ".otf", ".webp", ".avif", ".mp4",
    ".webm", ".txt", ".map">>

\* a static test on the start of the path instead of its end
isStaticPrefix(url) ==
  \E k \in 1..Len(staticExtensions) : StartsWith(url.pathname, staticExtensions[k])

\* isStatic(url)
isStatic(url) ==
  \E k \in 1..Len(staticExtensions) : EndsWith(url.pathname, staticExtensions[k])

\* a content-type test that compares the header as it was sent
shouldCaptureCaseSensitive(headers, cfg) ==
  IF headers.content_type = Undefined \/ headers.content_type = ""
    THEN FALSE
    ELSE \E k \in 1..Len(cfg.capture_content_types) :
           Contains(headers.content_type,
                    ToLowerCase(JsString(cfg.capture_content_types[k])))

\* shouldCapture(headers), reading the capture_content_types of cfg
shouldCapture(headers, cfg) ==
  IF headers.content_type = Undefined \/ headers.content_type = ""
    THEN FALSE
    ELSE \E k \in 1..Len(cfg.capture_content_types) :
           Contains(ToLowerCase(headers.content_type),
                    ToLowerCase(JsString(cfg.capture_content_types[k])))

\* a host filter in which the deny list wins over the allow list
shouldCaptureHostDenyFirst(url, config) ==
  IF Len(config.ignore_hosts) > 0
    THEN ~\E k \in 1..Len(config.ignore_hosts) :
            EndsWith(url.hostname, JsString(config.ignore_hosts[k]))
  ELSE IF Len(config.capture_hosts) > 0
    THEN \E k \in 1..Len(config.capture_hosts) :
           EndsWith(url.hostname, JsString(config.capture_hosts[k]))
  ELSE TRUE

\* shouldCaptureHost(url, config)
shouldCaptureHost(url, config) ==
  IF Len(config.capture_hosts) > 0
    THEN \E k \in 1..Len(config.capture_hosts) :
           EndsWith(url.hostname, JsString(config.capture_hosts[k]))
  ELSE IF Len(config.ignore_hosts) > 0
    THEN ~\E k \in 1..Len(config.ignore_hosts) :
            EndsWith(url.hostname, JsString(config.ignore_hosts[k]))
  ELSE TRUE

\* isGrpc(headers)
isGrpc(headers) ==
  IF headers.content_type = Undefined \/ headers.content_type = ""
    THEN FALSE
    ELSE Contains(ToLowerCase(headers.content_type), "grpc")

\* ------------------------------------------------------------------------
\* Body reading and encoding (traceable.js lines 227-282)
\* ------------------------------------------------------------------------

\* Uint8Array.prototype.slice(0, end): a negative end counts from the end
slice0(bytes, end) ==
  LET final == IF end < 0 THEN Max(Len(bytes) + end, 0) ELSE Min(end, Len(bytes))
  IN  SubSeq(bytes, 1, final)

\* a reader that flags a body of exactly max_size_bytes as truncated
readClonedBodyOffByOne(config, bytes) ==
  [body      |-> slice0(bytes, config.max_size_bytes),
   truncated |-> Len(bytes) >= config.max_size_bytes]

\* readClonedBody(config, clonedBody) once arrayBuffer() has resolved to bytes
readClonedBody(config, bytes) ==
  [body      |-> slice0(bytes, config.max_size_bytes),
   truncated |-> Len(bytes) > config.max_size_bytes]

chars == "ABCDEFGHIJKLMNOPQRSTUVWXYZabcdefghijklmnopqrstuvwxyz0123456789+/"

\* a lookup in the URL-safe alphabet of RFC 4648 section 5
charAtUrlSafe(n) ==
  SubSeq("ABCDEFGHIJKLMNOPQRSTUVWXYZabcdefghijklmnopqrstuvwxyz0123456789-_",
         n + 1, n + 1)

\* chars[n]
charAt(n) == SubSeq(chars, n + 1, n + 1)

\* the four characters of a full 24 bit group
encode24(u) ==
  charAt((u \div 262144) % 64) \o charAt((u \div 4096) % 64)
    \o charAt((u \div 64) % 64) \o charAt(u % 64)

\* the loop of uint8ArrayToBase64 from index i (0-based) with accumulator
\* uint24, followed by the padding branch
RECURSIVE base64From(_, _, _)
base64From(buffer, i, uint24) ==
  IF i < Len(buffer)
    THEN LET u == uint24 * 256 + buffer[i + 1]
         IN  IF i % 3 = 2
               THEN encode24(u) \o base64From(buffer, i + 1, 0)
               ELSE base64From(buffer, i + 1, u)
  ELSE IF Len(buffer) % 3 = 1
    THEN charAt(((uint24 * 65536) \div 262144) % 64)
           \o charAt(((uint24 * 65536) \div 4096) % 64) \o "=="
  ELSE IF Len(buffer) % 3 = 2
    THEN charAt(((uint24 * 256) \div 262144) % 64)
           \o charAt(((uint24 * 256) \div 4096) % 64)
           \o charAt(((uint24 * 256) \div 64) % 64) \o "="
  ELSE ""

\* uint8ArrayToBase64(buffer)
uint8ArrayToBase64(buffer) == base64From(buffer, 0, 0)

\* the bytes of "grpc-status"
GrpcStatusBytes == <<103, 114, 112, 99, 45, 115, 116, 97, 116, 117, 115>>

\* \s of the regular expression, on single-byte characters
IsSpace(b) == b \in {9, 10, 11, 12, 13, 32}

\* \d of the regular expression
IsDigit(b) == b >= 48 /\ b <= 57

\* the first index >= p of bytes that does not hold white space
RECURSIVE skipSpace(_, _)
skipSpace(bytes, p) ==
  IF p <= Len(bytes) /\ IsSpace(bytes[p]) THEN skipSpace(bytes, p + 1) ELSE p

\* the run of digits of bytes that starts at index p, as a string
RECURSIVE digitRun(_, _)
digitRun(bytes, p) ==
  IF p <= Len(bytes) /\ IsDigit(bytes[p])
    THEN DigitChar(bytes[p] - 48) \o digitRun(bytes, p + 1)
    ELSE ""

\* the capture group of /grpc-status\s*:\s*(\d+)/ when the match starts at p,
\* "" when there is no match at p
matchAt(bytes, p) ==
  LET n == Len(GrpcStatusBytes)
  IN  IF p + n - 1 > Len(bytes) \/ SubSeq(bytes, p, p + n - 1) # GrpcStatusBytes
        THEN ""
        ELSE LET c == skipSpace(bytes, p + n)
             IN  IF c > Len(bytes) \/ bytes[c] # 58
                   THEN ""
                   ELSE digitRun(bytes, skipSpace(bytes, c + 1))

\* the leftmost match from index p on
RECURSIVE firstMatch(_, _)
firstMatch(bytes, p) ==
  IF p > Len(bytes) THEN Null
  ELSE IF matchAt(bytes, p) # "" THEN matchAt(bytes, p)
  ELSE firstMatch(bytes, p + 1)

\* extractGrpcStatusCode(grpcBodyUint8)
extractGrpcStatusCode(grpcBodyUint8) == firstMatch(grpcBodyUint8, 1)

\* ------------------------------------------------------------------------
\* Record assembly and export headers (traceable.js lines 97-117, 284-310)
\* The wall clock (startDate, after, the duration header and the request
\* timestamp) is left out: no decision of the handler reads it.
\* ------------------------------------------------------------------------

VERSION == "2.4.1-dev"

\* createExtCapHeaders(start, end), reading CONFIG value cfg and environment e
createExtCapHeaders(cfg, e) ==
  [content_type     |-> "application/json",
   service_name     |-> cfg.service_name,
   module_version   |-> VERSION,
   environment_name |-> cfg.environment_name,
   module_name      |-> "netlify-edge",
   guid             |-> IF Len(cfg.traceable_guid) > 0
                          THEN cfg.traceable_guid ELSE Undefined,
   agent_token      |-> IF IsSet(getEnvVar(e, "TRACEABLE_AGENT_TOKEN"))
                          THEN getEnvVar(e, "TRACEABLE_AGENT_TOKEN")
                          ELSE Undefined]

\* createExtCapReqResCapBody(url, req, res, reqBody, resBody, startDate, grpc,
\*                           overrideStatus, reqTruncated, resTruncated)
createExtCapReqResCapBody(req, res, reqBody, resBody, grpc, overrideStatus, reqTruncated, resTruncated) ==
  [request  |-> [method    |-> req.method,
                 headers   |-> req.headers,
                 body      |-> reqBody,
                 scheme    |-> req.protocol,
                 path      |-> req.pathname,
                 host      |-> req.hostname,
                 truncated |-> reqTruncated],
   response |-> [headers     |-> [content_type |-> res.headers.content_type,
                                  grpc_status  |-> IF grpc /\ overrideStatus # Null
                                                     THEN overrideStatus
                                                     ELSE Undefined],
                 requestUrl  |-> req.protocol \o "//" \o req.hostname
                                   \o req.pathname,
                 statusCode  |-> res.status,
                 body        |-> resBody,
                 truncated   |-> resTruncated]]

\* ------------------------------------------------------------------------
\* Inputs: the requests the runtime dispatches and the responses the origin
\* (context.next()) produces.  fail = "clone" is a body that was already
\* consumed (clone() throws), fail = "read" a stream whose arrayBuffer()
\* rejects.  The runtime hands the handler requests and responses whose
\* body nobody has read, so the profiles below fail in the read only.
\* ------------------------------------------------------------------------

Req(path, host, ct, body, fail) ==
  [method |-> "POST", protocol |-> "https:", hostname |-> host,
   pathname |-> path, headers |-> [content_type |-> ct], body |-> body,
   bodyUsed |-> fail = "clone", fail |-> fail]

Requests ==
  {Req("/app.js", "www.example.com", "application/json", <<77, 97, 110>>, "none"),
   Req("/api/foo", "api.example.com", "Application/JSON", <<77, 97, 110>>, "none"),
   Req("/apiary", "www.example.com", "text/plain", <<77>>, "none"),
   Req("/form", "www.example.com", "text/xml", <<77, 97>>, "read"),
   Req("/form2", "other.org", Undefined, <<>>, "none")}

Res(status, ct, body, fail) ==
  [status |-> status, headers |-> [content_type |-> ct], body |-> body,
   bodyUsed |-> fail = "clone", fail |-> fail]

Responses ==
  {Res(200, "application/json", <<1, 2>>, "none"),
   Res(200, "application/grpc+proto",
       <<103, 114, 112, 99, 45, 115, 116, 97, 116, 117, 115, 58, 55>>, "none"),
   Res(204, Undefined, <<>>, "none"),
   Res(500, "application/xml", <<60>>, "read")}

\* the statuses the collector answers the export POST with
CollectorStatuses == {200, 500, 530}

\* ------------------------------------------------------------------------
\* State
\* ------------------------------------------------------------------------

VARIABLES
  env,         \* the process environment read by getEnvVar
  envChanges,  \* number of changes made to env so far
  CONFIG,      \* the module-level CONFIG object
  waitUntil,   \* whether the runtime's context offers waitUntil
  pc,          \* pc[i]: the await point invocation i is at
  inv,         \* inv[i]: the local variables of invocation i
  exp,         \* exp[i]: the exportData call started by invocation i
  console,     \* console[i]: the console calls made on behalf of invocation i
  call         \* a direct call of one function of the module: input and result

vars == <<env, envChanges, CONFIG, waitUntil, pc, inv, exp, console, call>>

Invocations == 1..MaxInvocations

NoRequest == Req("", "", Undefined, <<>>, "none")
NoResponse == Res(0, Undefined, <<>>, "none")

\* the locals of an invocation that has not started
IdleInv ==
  [request           |-> NoRequest,
   route             |-> "none",      \* "static", "filtered" or "capture"
   snapshot          |-> DefaultConfig, \* CONFIG as left by updateConfigFromEnv()
   filters           |-> {},          \* the filters evaluated so far
   reads             |-> {},          \* the sides whose clone was read
   requestClone      |-> "none",      \* request.clone(): "none", "made", "read"
   responseClone     |-> "none",      \* response.clone(): "none", "made", "read"
   requestBody       |-> Null,
   requestTruncated  |-> FALSE,
   reqMaxSize        |-> 0,           \* maxSize of the request readClonedBody
   nextCalls         |-> 0,           \* calls of context.next()
   response          |-> NoResponse,
   responseBody      |-> Null,
   responseTruncated |-> FALSE,
   resMaxSize        |-> 0,           \* maxSize of the response readClonedBody
   grpc              |-> FALSE,
   overrideStatus    |-> Null,
   returned          |-> NoResponse]

NoExport ==
  [state |-> "none", via |-> "none", posts |-> 0, url |-> "",
   headers |-> createExtCapHeaders(DefaultConfig, EnvNone),
   body |-> createExtCapReqResCapBody(NoRequest, NoResponse, Null, Null, FALSE,
                                      Null, FALSE, FALSE),
   outcome |-> "none"]

\* no direct call
NoCall == [fn |-> "none", done |-> FALSE, bytes |-> <<>>, max |-> 0,
           body |-> <<>>, truncated |-> FALSE, base64 |-> ""]

\* the process after the module is loaded: CONFIG holds its literal, no
\* invocation has started
Loaded ==
  /\ envChanges = 0
  /\ CONFIG = DefaultConfig
  /\ pc = [i \in Invocations |-> "idle"]
  /\ inv = [i \in Invocations |-> IdleInv]
  /\ exp = [i \in Invocations |-> NoExport]
  /\ console = [i \in Invocations |-> {}]

Init ==
  /\ Loaded
  /\ env \in Envs
  /\ waitUntil \in BOOLEAN
  /\ call = NoCall

\* ------------------------------------------------------------------------
\* The handler (traceable.js lines 316-392), one action per stretch of code
\* between two awaits
\* ------------------------------------------------------------------------

\* a handler that hands back a Response rebuilt around the origin's body
\* stream, which leaves the origin's response consumed
handlerReturnRebuilt(response) == [response EXCEPT !.bodyUsed = TRUE]

\* `return response` / `return await context.next()`: the value handed back
handlerReturn(response) == response

\* a request capture whose error is rethrown out of the handler
catchRequestBodyRethrow == "thrown"

\* the catch of lines 343-345 swallows the error: control goes on to
\* `await context.next()`
catchRequestBody == "next"

\* a handler that awaits exportData(...) before it returns
afterExportDataAwaited == "export_wait"

\* exportData(...) is called without await (lines 381-386): control goes on
\* to `return response`
afterExportData == "done"

\* a capture that reads the body of the original instead of the clone
captureTargetOriginal == "original"

\* lines 339 and 359 hand request.clone() / response.clone() to
\* readClonedBody: arrayBuffer() is called on the clone
captureTarget == "clone"

\* the original request or response x after arrayBuffer() was called for its
\* capture: only the stream that was read is used up
originalAfterRead(x) ==
  IF captureTarget = "clone" THEN x ELSE [x EXCEPT !.bodyUsed = TRUE]

\* the route taken by lines 323-330 under configuration cfg: "static",
\* "filtered", "capture", or "throw" when shouldSkipRoute raises
routeOf(req, cfg) ==
  IF isStatic(req) THEN "static"
  ELSE IF ~shouldCaptureHost(req, cfg) THEN "filtered"
  ELSE IF shouldSkipRoute(req, cfg) = "throw" THEN "throw"
  ELSE IF shouldSkipRoute(req, cfg) = "skip" THEN "filtered"
  ELSE "capture"

\* the filters lines 323-338 evaluate on the way
filtersOf(req, cfg) ==
  IF isStatic(req) THEN {}
  ELSE IF ~shouldCaptureHost(req, cfg) THEN {"host"}
  ELSE IF shouldSkipRoute(req, cfg) # "pass" THEN {"host", "route"}
  ELSE {"host", "route", "content-type"}

\* lines 316-348 up to the first await: updateConfigFromEnv(), the static
\* test, the host and route filters, and the start of the request capture
Start(i, r) ==
  LET cfg   == updateConfigFromEnv(CONFIG, env)
      route == routeOf(r, cfg)
      cap   == route = "capture" /\ shouldCapture(r.headers, cfg)
      loc   == [inv[i] EXCEPT !.request = r, !.route = route,
                              !.snapshot = cfg, !.filters = filtersOf(r, cfg)]
      warn  == IF configWarnings(env) # {} THEN {"warn:invalid-json"} ELSE {}
  IN  /\ pc[i] = "idle"
      /\ IF i = 1 THEN TRUE ELSE pc[i - 1] # "idle"
      /\ CONFIG' = cfg
      /\ IF route = "throw"
           THEN /\ pc' = [pc EXCEPT ![i] = "thrown"]
                /\ inv' = [inv EXCEPT ![i] = loc]
                /\ console' = [console EXCEPT ![i] = @ \cup warn]
         ELSE IF cap /\ r.fail = "clone"
           THEN \* request.clone() throws: caught at line 343
                /\ pc' = [pc EXCEPT ![i] = catchRequestBody]
                /\ inv' = [inv EXCEPT ![i] =
                             [loc EXCEPT !.nextCalls =
                                IF catchRequestBody = "next" THEN 1 ELSE 0]]
                /\ console' = [console EXCEPT ![i] =
                                 @ \cup warn \cup {"error:request-body"}]
         ELSE IF cap
           THEN \* await clonedBody.arrayBuffer()
                /\ pc' = [pc EXCEPT ![i] = "req_read"]
                /\ inv' = [inv EXCEPT ![i] = [loc EXCEPT !.reads = {"request"},
                                                        !.requestClone = "made"]]
                /\ console' = [console EXCEPT ![i] = @ \cup warn]
         ELSE   \* await context.next()
                /\ pc' = [pc EXCEPT ![i] = "next"]
                /\ inv' = [inv EXCEPT ![i] = [loc EXCEPT !.nextCalls = 1]]
                /\ console' = [console EXCEPT ![i] = @ \cup warn]
      /\ UNCHANGED <<env, envChanges, waitUntil, exp, call>>

\* lines 228-239 and 340-348: arrayBuffer() of the request clone settles; the
\* body is sliced with the max_size_bytes CONFIG holds now, then the request
\* is forwarded
ReqReadDone(i) ==
  LET cb == readClonedBody(CONFIG, inv[i].request.body)
  IN  /\ pc[i] = "req_read"
      /\ IF inv[i].request.fail = "read"
           THEN /\ pc' = [pc EXCEPT ![i] = catchRequestBody]
                /\ inv' = [inv EXCEPT ![i].nextCalls =
                             IF catchRequestBody = "next" THEN 1 ELSE 0,
                                      ![i].requestClone = "read",
                                      ![i].request = originalAfterRead(@)]
                /\ console' = [console EXCEPT ![i] = @ \cup {"error:request-body"}]
           ELSE /\ pc' = [pc EXCEPT ![i] = "next"]
                /\ inv' = [inv EXCEPT ![i].requestBody = uint8ArrayToBase64(cb.body),
                                      ![i].requestClone = "read",
                                      ![i].request = originalAfterRead(@),
                                      ![i].requestTruncated = cb.truncated,
                                      ![i].reqMaxSize = CONFIG.max_size_bytes,
                                      ![i].nextCalls = 1]
                /\ UNCHANGED console
      /\ UNCHANGED <<env, envChanges, CONFIG, waitUntil, exp, call>>

\* exportData up to `await fetch(url, options)` (lines 119-130), for the
\* record extCap
startExport(e, extCap) ==
  [state   |-> "pending",
   via     |-> IF waitUntil THEN "waitUntil" ELSE "detached",
   posts   |-> e.posts + 1,
   url     |-> CONFIG.tpa_address \o "/ext_cap/v1/req_res_cap",
   headers |-> createExtCapHeaders(CONFIG, env),
   body    |-> extCap,
   outcome |-> "none"]

\* a handler that exports a record only when it captured a body
FinishOnlyCaptured(i, loc) ==
  LET extCap == createExtCapReqResCapBody(loc.request, loc.response,
                  loc.requestBody, loc.responseBody, loc.grpc,
                  loc.overrideStatus, loc.requestTruncated,
                  loc.responseTruncated)
  IN  /\ exp' = [exp EXCEPT ![i] =
                   IF loc.requestBody = Null /\ loc.responseBody = Null
                     THEN @ ELSE startExport(@, extCap)]
      /\ pc' = [pc EXCEPT ![i] = "done"]
      /\ inv' = [inv EXCEPT ![i] =
                   [loc EXCEPT !.returned = handlerReturn(loc.response)]]
      /\ UNCHANGED console

\* lines 368-391: the record is assembled from the locals loc, exportData is
\* started and the response is returned
Finish(i, loc) ==
  LET extCap == createExtCapReqResCapBody(loc.request, loc.response,
                  loc.requestBody, loc.responseBody, loc.grpc,
                  loc.overrideStatus, loc.requestTruncated,
                  loc.responseTruncated)
  IN  /\ exp' = [exp EXCEPT ![i] = startExport(@, extCap)]
      /\ pc' = [pc EXCEPT ![i] = afterExportData]
      /\ inv' = [inv EXCEPT ![i] =
                   [loc EXCEPT !.returned =
                      IF afterExportData = "done"
                        THEN handlerReturn(loc.response) ELSE @]]
      /\ UNCHANGED console

\* a catch that answers the client with an error response of its own
FailResponsePhaseSubstitute(i, loc) ==
  /\ pc' = [pc EXCEPT ![i] = "done"]
  /\ inv' = [inv EXCEPT ![i] =
               [loc EXCEPT !.returned = Res(500, "text/plain", <<>>, "none")]]
  /\ console' = [console EXCEPT ![i] = @ \cup {"error:response-phase"}]
  /\ UNCHANGED exp

\* the catch of lines 387-391: the error is logged, the response returned
FailResponsePhase(i, loc) ==
  /\ pc' = [pc EXCEPT ![i] = "done"]
  /\ inv' = [inv EXCEPT ![i] = [loc EXCEPT !.returned = handlerReturn(loc.response)]]
  /\ console' = [console EXCEPT ![i] = @ \cup {"error:response-phase"}]
  /\ UNCHANGED exp

\* a handler that assembles and exports the record as soon as the origin
\* has replied, without waiting for the read of the response clone
NextReturnsExportFirst(i, o) ==
  LET loc == [inv[i] EXCEPT !.response = o]
  IN  /\ pc[i] = "next"
      /\ IF inv[i].route # "capture"
           THEN /\ pc' = [pc EXCEPT ![i] = "done"]
                /\ inv' = [inv EXCEPT ![i] = [loc EXCEPT !.returned = handlerReturn(o)]]
                /\ UNCHANGED <<exp, console>>
         ELSE IF ~shouldCapture(o.headers, CONFIG)
           THEN Finish(i, [loc EXCEPT !.filters = @ \cup {"response-content-type"}])
         ELSE Finish(i, [loc EXCEPT !.filters = @ \cup {"response-content-type"},
                                    !.reads = @ \cup {"response"},
                                    !.responseClone = "made"])
      /\ UNCHANGED <<env, envChanges, CONFIG, waitUntil, call>>

\* context.next() resolves with response o: lines 324, 329 return it; lines
\* 348-391 start the response capture
NextReturns(i, o) ==
  LET loc == [inv[i] EXCEPT !.response = o]
  IN  /\ pc[i] = "next"
      /\ IF inv[i].route # "capture"
           THEN /\ pc' = [pc EXCEPT ![i] = "done"]
                /\ inv' = [inv EXCEPT ![i] = [loc EXCEPT !.returned = handlerReturn(o)]]
                /\ UNCHANGED <<exp, console>>
         ELSE IF ~shouldCapture(o.headers, CONFIG)
           THEN Finish(i, [loc EXCEPT !.filters = @ \cup {"response-content-type"}])
         ELSE IF o.fail = "clone"
           THEN FailResponsePhase(i, [loc EXCEPT !.filters = @ \cup {"response-content-type"}])
         ELSE   \* await clonedBody.arrayBuffer()
                /\ pc' = [pc EXCEPT ![i] = "res_read"]
                /\ inv' = [inv EXCEPT ![i] =
                             [loc EXCEPT !.filters = @ \cup {"response-content-type"},
                                         !.reads = @ \cup {"response"},
                                         !.responseClone = "made"]]
                /\ UNCHANGED <<exp, console>>
      /\ UNCHANGED <<env, envChanges, CONFIG, waitUntil, call>>

\* lines 228-239 and 360-391: arrayBuffer() of the response clone settles
ResReadDone(i) ==
  LET cb   == readClonedBody(CONFIG, inv[i].response.body)
      grpc == isGrpc(inv[i].response.headers)
  IN  /\ pc[i] = "res_read"
      /\ IF inv[i].response.fail = "read"
           THEN FailResponsePhase(i, [inv[i] EXCEPT
                                        !.responseClone = "read",
                                        !.response = originalAfterRead(@)])
           ELSE Finish(i, [inv[i] EXCEPT
                             !.responseClone = "read",
                             !.response = originalAfterRead(@),
                             !.responseTruncated = cb.truncated,
                             !.resMaxSize = CONFIG.max_size_bytes,
                             !.grpc = grpc,
                             !.overrideStatus =
                                IF grpc THEN extractGrpcStatusCode(cb.body) ELSE Null,
                             !.responseBody = uint8ArrayToBase64(cb.body)])
      /\ UNCHANGED <<env, envChanges, CONFIG, waitUntil, call>>

\* ------------------------------------------------------------------------
\* The export task after its fetch (traceable.js lines 90-95, 129-147)
\* ------------------------------------------------------------------------

\* debugLog(msg): the console.log calls made for the messages msgs
debugLog(msgs) == IF CONFIG.debug = TRUE THEN msgs ELSE {}

\* response.ok
IsOk(status) == status >= 200 /\ status <= 299

\* a catch that issues the POST again
exportCatchRetry(e) == [e EXCEPT !.state = "pending", !.posts = @ + 1]

\* the catch of lines 144-146: the error is logged and exportData ends
exportCatch(e) == [e EXCEPT !.state = "done", !.outcome = "failed"]

\* fetch resolves with the collector's answer (lines 130-143)
ExportResponds(i, status) ==
  /\ exp[i].state = "pending"
  /\ console' = [console EXCEPT ![i] =
       @ \cup debugLog({"log:export-status"})
         \cup (IF IsOk(status) THEN {} ELSE debugLog({"log:export-http-error"}))]
  /\ exp' = [exp EXCEPT
       ![i].state = IF ~IsOk(status) /\ status = 530 THEN "reading530" ELSE "done",
       ![i].outcome = IF IsOk(status) THEN "ok" ELSE "http-error"]
  /\ UNCHANGED <<env, envChanges, CONFIG, waitUntil, pc, inv, call>>

\* response.text() of a 530 answer settles (lines 136-141)
ExportErrorBody(i, ok) ==
  /\ exp[i].state = "reading530"
  /\ console' = [console EXCEPT ![i] =
       @ \cup (IF ok THEN debugLog({"log:export-error-body"})
                     ELSE {"error:export-error-body"})]
  /\ exp' = [exp EXCEPT ![i].state = "done"]
  /\ UNCHANGED <<env, envChanges, CONFIG, waitUntil, pc, inv, call>>

\* fetch rejects: a transport failure (lines 144-146)
ExportFails(i) ==
  /\ exp[i].state = "pending"
  /\ console' = [console EXCEPT ![i] = @ \cup {"error:export"}]
  /\ exp' = [exp EXCEPT ![i] = exportCatch(@)]
  /\ UNCHANGED <<env, envChanges, CONFIG, waitUntil, pc, inv, call>>

\* the environment of the process is changed from outside
EnvChange(e) ==
  /\ envChanges < MaxEnvChanges
  /\ e # env
  /\ env' = e
  /\ envChanges' = envChanges + 1
  /\ UNCHANGED <<CONFIG, waitUntil, pc, inv, exp, console, call>>

Next ==
  \/ \E i \in Invocations, r \in Requests : Start(i, r)
  \/ \E i \in Invocations : ReqReadDone(i)
  \/ \E i \in Invocations, o \in Responses : NextReturns(i, o)
  \/ \E i \in Invocations : ResReadDone(i)
  \/ \E i \in Invocations, st \in CollectorStatuses : ExportResponds(i, st)
  \/ \E i \in Invocations, ok \in BOOLEAN : ExportErrorBody(i, ok)
  \/ \E i \in Invocations : ExportFails(i)
  \/ \E e \in Envs : EnvChange(e)

Spec == Init /\ [][Next]_vars

\* ------------------------------------------------------------------------
\* readClonedBody called directly on every body and cap within the bounds
\* ------------------------------------------------------------------------

\* longest body handed to readClonedBody
MaxBodyLen == 3

\* largest max_size_bytes handed to readClonedBody
MaxCap == 4

\* the byte values the bodies are made of
BodyBytes == {0, 77, 255}

\* every body of at most MaxBodyLen bytes
Bodies == UNION {[1..n -> BodyBytes] : n \in 0..MaxBodyLen}

ReadInit ==
  /\ Loaded
  /\ env = EnvNone
  /\ waitUntil = TRUE
  /\ call \in {[NoCall EXCEPT !.fn = "readClonedBody", !.bytes = b, !.max = m] :
                 b \in Bodies, m \in (0 - 1)..MaxCap}

\* await readClonedBody({max_size_bytes: call.max}, clone of call.bytes)
ReadCall ==
  LET cb == readClonedBody([max_size_bytes |-> call.max], call.bytes)
  IN  /\ call.fn = "readClonedBody"
      /\ ~call.done
      /\ call' = [call EXCEPT !.done = TRUE, !.body = cb.body,
                              !.truncated = cb.truncated]
      /\ UNCHANGED <<env, envChanges, CONFIG, waitUntil, pc, inv, exp, console>>

ReadSpec == ReadInit /\ [][ReadCall]_vars

\* ------------------------------------------------------------------------
\* uint8ArrayToBase64 called on its own: every buffer of at most
\* MaxEncodeLen bytes of EncodeBytes, and every buffer of at most three
\* bytes whose last byte is any value 0..255
\* ------------------------------------------------------------------------

\* longest buffer handed to uint8ArrayToBase64
MaxEncodeLen == 4

\* the byte values the longer buffers are made of
EncodeBytes == {0, 77, 97, 110, 255}

\* every buffer of exactly n bytes of EncodeBytes
BuffersOfLen(n) == [1..n -> EncodeBytes]

Buffers ==
  UNION {BuffersOfLen(n) : n \in 0..MaxEncodeLen}
    \cup {b \o <<last>> : b \in UNION {BuffersOfLen(n) : n \in 0..2},
                           last \in 0..255}

EncodeInit ==
  /\ Loaded
  /\ env = EnvNone
  /\ waitUntil = TRUE
  /\ call \in {[NoCall EXCEPT !.fn = "uint8ArrayToBase64", !.bytes = b] :
                 b \in Buffers}

\* base64 = uint8ArrayToBase64(call.bytes)
EncodeCall ==
  /\ call.fn = "uint8ArrayToBase64"
  /\ ~call.done
  /\ call' = [call EXCEPT !.done = TRUE,
                          !.base64 = uint8ArrayToBase64(call.bytes)]
  /\ UNCHANGED <<env, envChanges, CONFIG, waitUntil, pc, inv, exp, console>>

EncodeSpec == EncodeInit /\ [][EncodeCall]_vars

\* ------------------------------------------------------------------------
\* Scheduling: the runtime resumes a handler whose awaited stream read or
\* context.next() settles, and the read of a 530 answer's body settles.
\* Nothing obliges a client to send a request, the environment to change, or
\* the collector to answer the export POST.
\* ------------------------------------------------------------------------

Fairness ==
  /\ \A i \in Invocations : WF_vars(ReqReadDone(i))
  /\ \A i \in Invocations : WF_vars(\E o \in Responses : NextReturns(i, o))
  /\ \A i \in Invocations : WF_vars(ResReadDone(i))
  /\ \A i \in Invocations : WF_vars(\E ok \in BOOLEAN : ExportErrorBody(i, ok))

FairSpec == Init /\ [][Next]_vars /\ Fairness

\* ------------------------------------------------------------------------
\* Properties
\* ------------------------------------------------------------------------

ExportPath == "/ext_cap/v1/req_res_cap"

\* the export of invocation i has been started
Exported(i) == exp[i].state \in {"pending", "reading530", "done"}

\* C1: whatever has become of the export POST of an exchange (still
\* pending, answered 2xx, answered non-2xx, failed in transport), the handler
\* has returned and what it returned is the response context.next() gave:
\* same status, headers and body, the body unread.
C1_ExportNeverAltersResponse ==
  \A i \in Invocations :
    Exported(i) =>
      /\ pc[i] = "done"
      /\ inv[i].response \in Responses
      /\ inv[i].returned = inv[i].response

\* an export that failed in transport and one answered non-2xx, both after
\* the handlers returned the origin's response
C1_Witness ==
  \E i, j \in Invocations :
    /\ exp[i].outcome = "failed" /\ exp[j].outcome = "http-error"
    /\ inv[i].returned = inv[i].response /\ inv[i].response \in Responses
    /\ inv[j].returned = inv[j].response /\ inv[j].response \in Responses

\* C2: no error raised inside the capture engine escapes the handler: no
\* invocation ever ends by throwing.
C2_NoErrorEscapes ==
  \A i \in Invocations : pc[i] # "thrown"

\* C3: every configuration value an invocation reads after an await equals
\* the value it resolved at its start: the caps used to slice the captured
\* bodies, the content types the response is tested against, the collector
\* address and service/environment names of the export, the debug flag the
\* export logs under.
C3_ConfigFixedPerInvocation ==
  \A i \in Invocations :
    /\ inv[i].requestBody # Null =>
         inv[i].reqMaxSize = inv[i].snapshot.max_size_bytes
    /\ inv[i].responseBody # Null =>
         inv[i].resMaxSize = inv[i].snapshot.max_size_bytes
    /\ ("response-content-type" \in inv[i].filters /\ inv[i].response.fail # "clone") =>
         (("response" \in inv[i].reads)
            <=> shouldCapture(inv[i].response.headers, inv[i].snapshot))
    /\ Exported(i) =>
         /\ exp[i].url = inv[i].snapshot.tpa_address \o ExportPath
         /\ exp[i].headers.service_name = inv[i].snapshot.service_name
         /\ exp[i].headers.environment_name = inv[i].snapshot.environment_name
    /\ exp[i].outcome \in {"ok", "http-error"} =>
         (("log:export-status" \in console[i]) <=> inv[i].snapshot.debug)

\* C4: the step of the handler that starts the export is the step that
\* returns the response: the export is handed to context.waitUntil when the
\* runtime has it and started detached otherwise, and the handler is done,
\* with the origin's response returned, while the POST is still pending.
C4_ReturnsWithoutAwaitingExport ==
  [][\A i \in Invocations :
       (exp[i].state = "none" /\ exp'[i].state # "none") =>
         /\ exp'[i].state = "pending"
         /\ exp'[i].via = (IF waitUntil THEN "waitUntil" ELSE "detached")
         /\ pc'[i] = "done"
         /\ inv'[i].returned = inv'[i].response]_vars

\* a handler that has returned in a runtime without waitUntil while its
\* export POST is pending
C4_Witness ==
  \E i \in Invocations :
    /\ pc[i] = "done" /\ exp[i].state = "pending" /\ exp[i].via = "detached"
    /\ inv[i].returned = inv[i].response

\* C5: every export POST that is started eventually finishes.
C5_ExportEventuallyFinishes ==
  \A i \in Invocations : (exp[i].state = "pending") ~> (exp[i].state = "done")

\* C6: after a failure of the request body capture the request is still
\* forwarded once and nothing is thrown; the record that is exported has no
\* request body and request.truncated = FALSE; a response whose clone was
\* read has its body in the record; and unless the response phase itself
\* fails the handler ends with exactly one export.
C6_RequestFailureIsolated ==
  \A i \in Invocations :
    "error:request-body" \in console[i] =>
      /\ pc[i] \in {"next", "res_read", "done"}
      /\ inv[i].nextCalls = 1
      /\ inv[i].requestBody = Null /\ inv[i].requestTruncated = FALSE
      /\ (pc[i] = "done" /\ "error:response-phase" \notin console[i]) =>
           /\ Exported(i) /\ exp[i].posts = 1
           /\ "response-content-type" \in inv[i].filters
           /\ exp[i].body.request.body = Null
           /\ exp[i].body.request.truncated = FALSE
           /\ ("response" \in inv[i].reads) <=> (exp[i].body.response.body # Null)

\* a failed request capture followed by a captured response body and an
\* exported record
C6_Witness ==
  \E i \in Invocations :
    /\ "error:request-body" \in console[i]
    /\ pc[i] = "done" /\ Exported(i)
    /\ exp[i].body.request.body = Null
    /\ exp[i].body.response.body # Null

\* C7: each exchange causes at most one export POST, whatever the outcome
\* of the POST, and an exchange that is not intercepted causes none.
C7_AtMostOnePost ==
  \A i \in Invocations :
    exp[i].posts <= (IF inv[i].route = "capture" THEN 1 ELSE 0)

\* one export that failed in transport and one answered non-2xx, each with
\* its single POST
C7_Witness ==
  \E i, j \in Invocations :
    /\ exp[i].state = "done" /\ exp[i].outcome = "failed" /\ exp[i].posts = 1
    /\ exp[j].state = "done" /\ exp[j].outcome = "http-error" /\ exp[j].posts = 1

\* the path p ends with one of the static file extensions
HasStaticSuffix(p) ==
  \E k \in 1..Len(staticExtensions) :
    /\ Len(p) >= Len(staticExtensions[k])
    /\ SubSeq(p, Len(p) - Len(staticExtensions[k]) + 1, Len(p)) = staticExtensions[k]

\* C8: a request whose path ends with a static file extension is forwarded
\* with no filter evaluated, no body read and no export, and the handler
\* returns what context.next() gave.
C8_StaticBypass ==
  \A i \in Invocations :
    (pc[i] # "idle" /\ HasStaticSuffix(inv[i].request.pathname)) =>
      /\ pc[i] \in {"next", "done"}
      /\ inv[i].nextCalls = 1
      /\ inv[i].filters = {} /\ inv[i].reads = {}
      /\ exp[i].state = "none" /\ exp[i].posts = 0
      /\ pc[i] = "done" => inv[i].returned = inv[i].response

\* a static request answered while the skip route list would make the route
\* filter throw
C8_Witness ==
  \E i \in Invocations :
    /\ pc[i] = "done" /\ inv[i].request.pathname = "/app.js"
    /\ inv[i].snapshot.skip_routes = <<Num(1)>>
    /\ inv[i].returned = inv[i].response /\ inv[i].response \in Responses

\* C9: for every body of length L and every cap max_size_bytes >= 0,
\* readClonedBody returns the first min(L, max_size_bytes) bytes and
\* truncated = (L > max_size_bytes).
C9_CapturedBodyInvariant ==
  (call.fn = "readClonedBody" /\ call.done /\ call.max >= 0) =>
    /\ Len(call.body) = (IF Len(call.bytes) <= call.max
                           THEN Len(call.bytes) ELSE call.max)
    /\ \A k \in 1..Len(call.body) : call.body[k] = call.bytes[k]
    /\ call.truncated <=> (Len(call.bytes) > call.max)

\* a body of exactly the cap, returned whole and not flagged
C9_Witness ==
  /\ call.fn = "readClonedBody" /\ call.done
  /\ Len(call.bytes) = 2 /\ call.max = 2
  /\ call.body = call.bytes /\ ~call.truncated

\* C10: at every invocation, each optional key whose environment variable
\* is absent or empty resolves to its default, whatever earlier invocations
\* resolved.
C10_UnsetKeysResolveToDefaults ==
  [][\A i \in Invocations :
       (pc[i] = "idle" /\ pc'[i] # "idle") =>
         /\ ~IsSet(env["TA_SERVICE_NAME"]) => CONFIG'.service_name = "website"
         /\ ~IsSet(env["TA_MAX_SIZE_BYTES"]) => CONFIG'.max_size_bytes = 131072
         /\ ~IsSet(env["TA_CAPTURE_CONTENT_TYPES"]) =>
              CONFIG'.capture_content_types = DefaultConfig.capture_content_types
         /\ ~IsSet(env["TA_CAPTURE_HOSTS"]) => CONFIG'.capture_hosts = <<>>
         /\ ~IsSet(env["TA_IGNORE_HOSTS"]) => CONFIG'.ignore_hosts = <<>>
         /\ ~IsSet(env["TA_SKIP_ROUTES"]) => CONFIG'.skip_routes = <<>>
         /\ ~IsSet(env["TA_DEBUG"]) => CONFIG'.debug = FALSE]_vars

\* the list-valued environment variables and the key each one overrides
ListKeys ==
  [TA_CAPTURE_CONTENT_TYPES |-> "capture_content_types",
   TA_CAPTURE_HOSTS         |-> "capture_hosts",
   TA_IGNORE_HOSTS          |-> "ignore_hosts",
   TA_SKIP_ROUTES           |-> "skip_routes"]

\* a list variable that is set to invalid JSON or to JSON that is no array
Malformed(e, n) == IsSet(e[n]) /\ JSONparse(e[n]).t # "array"

\* the environment e with its malformed list variables taken out
WithoutMalformed(e) ==
  [n \in EnvNames |->
     IF n \in DOMAIN ListKeys /\ Malformed(e, n) THEN Undefined ELSE e[n]]

\* C11: when an invocation resolves its configuration and a list-valued
\* variable holds invalid JSON or JSON that is no array, the key keeps the
\* value it had before the invocation, every other key is resolved as if
\* the malformed variable were absent, and the handler goes on to its
\* filters (it is aborted only where it would be with the variable absent).
C11_MalformedListKeepsPrior ==
  [][\A i \in Invocations :
       (pc[i] = "idle" /\ pc'[i] # "idle"
          /\ \E n \in DOMAIN ListKeys : Malformed(env, n)) =>
         /\ \A n \in DOMAIN ListKeys :
              Malformed(env, n) => CONFIG'[ListKeys[n]] = CONFIG[ListKeys[n]]
         /\ CONFIG' = updateConfigFromEnv(CONFIG, WithoutMalformed(env))
         /\ inv'[i].snapshot = CONFIG'
         /\ inv'[i].route = routeOf(inv'[i].request, CONFIG')
         /\ (pc'[i] = "thrown") <=>
              (routeOf(inv'[i].request,
                       updateConfigFromEnv(CONFIG, WithoutMalformed(env))) = "throw")]_vars

\* an invocation that met invalid JSON, kept the list an earlier invocation
\* had resolved, and handled its exchange to the end
C11_Witness ==
  \E i \in Invocations :
    /\ "warn:invalid-json" \in console[i]
    /\ inv[i].snapshot.capture_content_types = <<Str("TEXT")>>
    /\ inv[i].snapshot.debug = FALSE
    /\ pc[i] = "done"

\* the hostname ends with the text of one entry of the list
HostInList(hostname, list) ==
  \E k \in 1..Len(list) :
    LET h == JsString(list[k])
    IN  /\ Len(h) <= Len(hostname)
        /\ SubSeq(hostname, Len(hostname) - Len(h) + 1, Len(hostname)) = h

\* the invocation got past the static test with the configuration it resolved
PastStatic(i) ==
  pc[i] # "idle" /\ ~HasStaticSuffix(inv[i].request.pathname)

\* the host filter turned the exchange away
HostRejected(i) == inv[i].filters = {"host"}

\* C12: with a non-empty capture_hosts the exchange passes the host filter
\* exactly when its hostname ends with an entry of capture_hosts, whatever
\* ignore_hosts holds; otherwise with a non-empty ignore_hosts it passes
\* exactly when its hostname ends with no entry of ignore_hosts; with both
\* empty it passes.  A rejected exchange is forwarded to the origin with no
\* body read and no export.
C12_HostFilterDecision ==
  \A i \in Invocations :
    PastStatic(i) =>
      LET cfg  == inv[i].snapshot
          host == inv[i].request.hostname
      IN  /\ Len(cfg.capture_hosts) > 0 =>
               (~HostRejected(i) <=> HostInList(host, cfg.capture_hosts))
          /\ (Len(cfg.capture_hosts) = 0 /\ Len(cfg.ignore_hosts) > 0) =>
               (~HostRejected(i) <=> ~HostInList(host, cfg.ignore_hosts))
          /\ (Len(cfg.capture_hosts) = 0 /\ Len(cfg.ignore_hosts) = 0) =>
               ~HostRejected(i)
          /\ HostRejected(i) =>
               /\ pc[i] \in {"next", "done"}
               /\ inv[i].nextCalls = 1
               /\ inv[i].reads = {}
               /\ inv[i].requestClone = "none" /\ inv[i].responseClone = "none"
               /\ inv[i].requestBody = Null /\ inv[i].responseBody = Null
               /\ exp[i] = NoExport
               /\ pc[i] = "done" => inv[i].returned = inv[i].response

\* both lists are non-empty and name the same suffix: one exchange of a
\* listed host is intercepted and exported, one of an unlisted host is
\* returned without a read or an export
C12_Witness ==
  \E i, j \in Invocations :
    /\ Len(inv[i].snapshot.capture_hosts) > 0
    /\ Len(inv[i].snapshot.ignore_hosts) > 0
    /\ HostInList(inv[i].request.hostname, inv[i].snapshot.ignore_hosts)
    /\ PastStatic(i) /\ ~HostRejected(i) /\ Exported(i)
    /\ Len(inv[j].snapshot.capture_hosts) > 0
    /\ PastStatic(j) /\ HostRejected(j) /\ pc[j] = "done"

\* the pattern (a string) matches the path: a pattern that ends in "/*"
\* matches the paths that start with the pattern less its final "*", any
\* other pattern matches the path equal to it
PatternMatches(p, path) ==
  IF Len(p) >= 2 /\ SubSeq(p, Len(p) - 1, Len(p)) = "/*"
    THEN /\ Len(path) >= Len(p) - 1
         /\ SubSeq(path, 1, Len(p) - 1) = SubSeq(p, 1, Len(p) - 1)
    ELSE path = p

\* the route filter turned the exchange away
RouteSkipped(i) == inv[i].filters = {"host", "route"} /\ inv[i].route = "filtered"

\* C13: for an exchange that reaches the route filter with string patterns
\* in skip_routes, the exchange is skipped exactly when some pattern matches
\* its path, where a pattern ending in the wildcard marker (the "*" of a
\* final "/*") matches every path starting with the pattern less the marker
\* and any other pattern matches only the equal path; a skipped exchange is
\* forwarded with no body read and no export; "/api/*" skips /api/foo and
\* does not skip /apiary.
C13_RouteSkipDecision ==
  \A i \in Invocations :
    LET routes == inv[i].snapshot.skip_routes
        path   == inv[i].request.pathname
    IN  (PastStatic(i) /\ ~HostRejected(i)
           /\ \A k \in 1..Len(routes) : routes[k].t = "str") =>
          /\ RouteSkipped(i) <=>
               \E k \in 1..Len(routes) : PatternMatches(routes[k].v, path)
          /\ (routes = <<Str("/api/*")>> /\ path = "/api/foo") => RouteSkipped(i)
          /\ (routes = <<Str("/api/*")>> /\ path = "/apiary") => ~RouteSkipped(i)
          /\ RouteSkipped(i) =>
               /\ pc[i] \in {"next", "done"}
               /\ inv[i].nextCalls = 1
               /\ inv[i].reads = {}
               /\ inv[i].requestClone = "none" /\ inv[i].responseClone = "none"
               /\ inv[i].requestBody = Null /\ inv[i].responseBody = Null
               /\ exp[i] = NoExport
               /\ pc[i] = "done" => inv[i].returned = inv[i].response

\* under skip_routes ["/api/*"], /api/foo was skipped and returned while
\* /apiary was intercepted and exported
C13_Witness ==
  \E i, j \in Invocations :
    /\ inv[i].snapshot.skip_routes = <<Str("/api/*")>>
    /\ inv[i].request.pathname = "/api/foo"
    /\ RouteSkipped(i) /\ pc[i] = "done"
    /\ inv[j].snapshot.skip_routes = <<Str("/api/*")>>
    /\ inv[j].request.pathname = "/apiary"
    /\ ~RouteSkipped(j) /\ Exported(j)

\* the side has a Content-Type header whose lowercased value contains the
\* lowercased text of an entry of the list
CtMatches(ct, types) ==
  /\ ct \notin {Undefined, ""}
  /\ \E k \in 1..Len(types) :
       LET entry == ToLowerCase(JsString(types[k]))
           value == ToLowerCase(ct)
       IN  \E from \in 1..(Len(value) + 1) :
             /\ from + Len(entry) - 1 <= Len(value)
             /\ SubSeq(value, from, from + Len(entry) - 1) = entry

\* C14: in every step of an intercepted exchange, each side's body capture
\* is attempted exactly when that side has a Content-Type header whose
\* lowercased value
\* contains a lowercased entry of the capture_content_types in force when
\* the side is tested, and a side's body is captured exactly when the
\* capture was attempted and its read succeeded; a side without the header
\* is never captured; the exchange is flagged gRPC exactly when the response
\* body is captured and the response Content-Type contains "grpc".
C14_ContentTypeGating ==
  [][\A i \in Invocations :
     (pc'[i] # pc[i] \/ inv'[i] # inv[i]) =>
       /\ (pc[i] = "idle" /\ pc'[i] # "idle" /\ inv'[i].route = "capture") =>
            LET m == CtMatches(inv'[i].request.headers.content_type,
                               CONFIG'.capture_content_types)
            IN  /\ m <=> (pc'[i] = "req_read"
                            \/ "error:request-body" \in console'[i])
                /\ m <=> (inv'[i].requestClone = "made"
                            \/ inv'[i].request.fail = "clone")
                /\ ~m => (pc'[i] = "next" /\ inv'[i].requestBody = Null)
       /\ (inv[i].requestBody = Null /\ inv'[i].requestBody # Null) =>
            (pc[i] = "req_read" /\ inv[i].request.fail = "none")
       /\ (pc[i] = "req_read" /\ pc'[i] # "req_read") =>
            (inv'[i].requestBody # Null <=> inv[i].request.fail = "none")
       /\ (pc[i] = "next" /\ pc'[i] # "next" /\ inv[i].route = "capture") =>
            LET m == CtMatches(inv'[i].response.headers.content_type,
                               CONFIG.capture_content_types)
            IN  /\ m <=> (pc'[i] = "res_read"
                            \/ "error:response-phase" \in console'[i])
                /\ m <=> (inv'[i].responseClone = "made"
                            \/ inv'[i].response.fail = "clone")
                /\ ~m => (pc'[i] = "done" /\ inv'[i].responseBody = Null)
       /\ (inv[i].responseBody = Null /\ inv'[i].responseBody # Null) =>
            (pc[i] = "res_read" /\ inv[i].response.fail = "none")
       /\ (pc[i] = "res_read" /\ pc'[i] # "res_read") =>
            (inv'[i].responseBody # Null <=> inv[i].response.fail = "none")
       /\ inv'[i].grpc <=>
            /\ inv'[i].responseBody # Null
            /\ CtMatches(inv'[i].response.headers.content_type, <<Str("grpc")>>)]_vars

\* a request sent as "Application/JSON" was captured, the gRPC answer to it
\* was captured and flagged, and an exchange with no Content-Type on either
\* side was exported with neither body
C14_Witness ==
  \E i, j \in Invocations :
    /\ inv[i].request.headers.content_type = "Application/JSON"
    /\ inv[i].requestBody # Null
    /\ inv[i].response.headers.content_type = "application/grpc+proto"
    /\ inv[i].responseBody # Null /\ inv[i].grpc
    /\ inv[j].route = "capture" /\ pc[j] = "done"
    /\ inv[j].request.headers.content_type = Undefined
    /\ inv[j].response \in Responses
    /\ inv[j].response.headers.content_type = Undefined
    /\ inv[j].requestBody = Null /\ inv[j].responseBody = Null /\ ~inv[j].grpc

\* C15: the capture reads clones only: the request the handler forwards
\* with context.next() and the response it returns have a body nobody has
\* read, whether the capture of that side succeeded, failed or never ran.
C15_OriginalStreamsUnread ==
  \A i \in Invocations :
    /\ inv[i].nextCalls = 1 =>
         /\ inv[i].request \in Requests
         /\ ~inv[i].request.bodyUsed
         /\ "request" \in inv[i].reads => inv[i].requestClone = "read"
    /\ pc[i] = "done" =>
         /\ inv[i].returned \in Responses
         /\ ~inv[i].returned.bodyUsed
         /\ "response" \in inv[i].reads => inv[i].responseClone = "read"

\* one exchange with both bodies captured from their clones and one whose
\* request read failed, each forwarded and returned with its body unread
C15_Witness ==
  \E i, j \in Invocations :
    /\ pc[i] = "done"
    /\ inv[i].requestClone = "read" /\ inv[i].requestBody # Null
    /\ inv[i].responseClone = "read" /\ inv[i].responseBody # Null
    /\ ~inv[i].request.bodyUsed /\ ~inv[i].returned.bodyUsed
    /\ pc[j] = "done"
    /\ inv[j].requestClone = "read" /\ "error:request-body" \in console[j]
    /\ ~inv[j].request.bodyUsed /\ ~inv[j].returned.bodyUsed

\* the alphabet of RFC 4648 table 1: the character of value n
Rfc4648Char(n) ==
  IF n < 26 THEN SubSeq("ABCDEFGHIJKLMNOPQRSTUVWXYZ", n + 1, n + 1)
  ELSE IF n < 52 THEN SubSeq("abcdefghijklmnopqrstuvwxyz", n - 25, n - 25)
  ELSE IF n < 62 THEN SubSeq("0123456789", n - 51, n - 51)
  ELSE IF n = 62 THEN "+" ELSE "/"

\* the value of a character of the alphabet
Rfc4648Value(c) == CHOOSE n \in 0..63 : Rfc4648Char(n) = c

\* RFC 4648 section 4: groups of three bytes become four characters; a
\* final group of one byte becomes two characters and "==", of two bytes
\* three characters and "="
RECURSIVE Rfc4648Encode(_)
Rfc4648Encode(b) ==
  IF Len(b) = 0 THEN ""
  ELSE IF Len(b) = 1
    THEN Rfc4648Char(b[1] \div 4) \o Rfc4648Char((b[1] % 4) * 16) \o "=="
  ELSE IF Len(b) = 2
    THEN Rfc4648Char(b[1] \div 4)
           \o Rfc4648Char((b[1] % 4) * 16 + b[2] \div 16)
           \o Rfc4648Char((b[2] % 16) * 4) \o "="
  ELSE Rfc4648Char(b[1] \div 4)
         \o Rfc4648Char((b[1] % 4) * 16 + b[2] \div 16)
         \o Rfc4648Char((b[2] % 16) * 4 + b[3] \div 64)
         \o Rfc4648Char(b[3] % 64)
         \o Rfc4648Encode(SubSeq(b, 4, Len(b)))

\* the reference decoder, on text made of whole groups of four characters
RECURSIVE Rfc4648Decode(_)
Rfc4648Decode(s) ==
  IF Len(s) < 4 THEN <<>>
  ELSE LET c(k) == SubSeq(s, k, k)
           v(k) == Rfc4648Value(c(k))
       IN  IF c(3) = "="
             THEN <<v(1) * 4 + v(2) \div 16>>
           ELSE IF c(4) = "="
             THEN <<v(1) * 4 + v(2) \div 16, (v(2) % 16) * 16 + v(3) \div 4>>
           ELSE <<v(1) * 4 + v(2) \div 16, (v(2) % 16) * 16 + v(3) \div 4,
                  (v(3) % 4) * 64 + v(4)>>
                  \o Rfc4648Decode(SubSeq(s, 5, Len(s)))

\* C16: for every buffer of n bytes, uint8ArrayToBase64 returns the RFC 4648
\* standard-alphabet encoding with "=" padding: the text has 4 * ceil(n / 3)
\* characters, equals the reference encoding, and decodes to the buffer.
C16_Base64IsRfc4648 ==
  (call.fn = "uint8ArrayToBase64" /\ call.done) =>
    /\ Len(call.base64) = 4 * ((Len(call.bytes) + 2) \div 3)
    /\ call.base64 = Rfc4648Encode(call.bytes)
    /\ Rfc4648Decode(call.base64) = call.bytes

\* four bytes, one full group and a padded one: "Man" and 255
C16_Witness ==
  /\ call.fn = "uint8ArrayToBase64" /\ call.done
  /\ call.bytes = <<77, 97, 110, 255>>
  /\ call.base64 = "TWFu/w=="

\* the record line 368 assembles from the locals of invocation i
RecordOf(loc) ==
  createExtCapReqResCapBody(loc.request, loc.response, loc.requestBody,
                            loc.responseBody, loc.grpc, loc.overrideStatus,
                            loc.requestTruncated, loc.responseTruncated)

\* C17: in every step of an invocation, (a) context.next() is called only
\* when the read of the request clone, if one was started, has settled with
\* a body or a logged failure; (b) the read of the response clone starts
\* only once context.next() has returned a response and before the handler
\* returns; (c) the handler returns only when no read of the response clone
\* is in flight; (d) the export starts only after the origin replied, after
\* the response capture (when the response content type asks for one) gave
\* its body, and with the record assembled from the captured values.
C17_PhaseOrdering ==
  [][\A i \in Invocations :
       /\ pc'[i] = "req_read" => inv'[i].nextCalls = 0
       /\ (inv[i].nextCalls = 0 /\ inv'[i].nextCalls = 1) =>
            /\ pc[i] \in {"idle", "req_read"} /\ pc'[i] = "next"
            /\ inv'[i].requestClone # "made"
            /\ inv'[i].requestClone = "read" =>
                 (inv'[i].requestBody # Null
                    \/ "error:request-body" \in console'[i])
            /\ inv'[i].response = NoResponse
       /\ (inv[i].responseClone = "none" /\ inv'[i].responseClone # "none") =>
            /\ pc[i] = "next" /\ pc'[i] = "res_read"
            /\ inv'[i].nextCalls = 1
            /\ inv'[i].response \in Responses
            /\ inv'[i].returned = NoResponse
            /\ exp'[i] = NoExport
       /\ (inv[i].returned = NoResponse /\ inv'[i].returned # NoResponse) =>
            /\ pc'[i] = "done"
            /\ inv'[i].responseClone # "made"
       /\ (exp[i].posts = 0 /\ exp'[i].posts = 1) =>
            /\ inv[i].nextCalls = 1
            /\ inv'[i].response \in Responses
            /\ inv'[i].requestClone # "made" /\ inv'[i].responseClone # "made"
            /\ \/ pc[i] = "res_read" /\ inv'[i].responseBody # Null
               \/ /\ pc[i] = "next"
                  /\ ~CtMatches(inv'[i].response.headers.content_type,
                                CONFIG.capture_content_types)
            /\ exp'[i].body = RecordOf(inv'[i])]_vars

\* an exchange that went through every phase: request body read, request
\* forwarded, response body read, record with both bodies posted
C17_Witness ==
  \E i \in Invocations :
    /\ pc[i] = "done" /\ inv[i].nextCalls = 1
    /\ inv[i].reads = {"request", "response"}
    /\ exp[i].posts = 1
    /\ exp[i].body.request.body # Null
    /\ exp[i].body.response.body # Null
    /\ exp[i].body = RecordOf(inv[i])

\* C18: when the debug flag is false, no step of an export (the collector
\* answering with any status, the read of a 530 answer's body settling, the
\* POST failing in transport) writes anything to the console.
C18_ExportFailuresSilentWithoutDebug ==
  [][\A i \in Invocations :
       (exp[i].state \in {"pending", "reading530"} /\ exp'[i] # exp[i]
          /\ CONFIG.debug = FALSE) =>
         console'[i] = console[i]]_vars

\* C19: an invocation never calls context.next() twice, and one that has
\* returned (static, host-filtered, route-skipped, or intercepted with or
\* without capture errors) has called it exactly once and returned the
\* response that call produced.
C19_ForwardOnceReturnOrigin ==
  \A i \in Invocations :
    /\ inv[i].nextCalls \in {0, 1}
    /\ inv[i].response # NoResponse => inv[i].nextCalls = 1
    /\ inv[i].returned # NoResponse => pc[i] = "done"
    /\ pc[i] = "done" =>
         /\ inv[i].nextCalls = 1
         /\ inv[i].response \in Responses
         /\ inv[i].returned = inv[i].response

\* a static exchange returned, and an intercepted exchange whose request
\* read and response read both failed returned
C19_Witness ==
  \E i, j \in Invocations :
    /\ pc[i] = "done" /\ inv[i].route = "static"
    /\ inv[i].returned = inv[i].response
    /\ pc[j] = "done" /\ inv[j].route = "capture"
    /\ {"error:request-body", "error:response-phase"} \subseteq console[j]
    /\ inv[j].nextCalls = 1 /\ inv[j].returned = inv[j].response

\* C20: every intercepted exchange (not static, past the host and route
\* filters) whose response phase did not fail has posted exactly one record,
\* whether or not a content type matched; in the record a side's body is
\* present exactly when that side's capture was started (its content type
\* matched) and its read succeeded, and a side without a body has
\* truncated = false.
C20_ExportNotGatedByContentType ==
  \A i \in Invocations :
    (inv[i].route = "capture" /\ pc[i] = "done"
       /\ "error:response-phase" \notin console[i]) =>
      /\ Exported(i) /\ exp[i].posts = 1
      /\ exp[i].body.request.body # Null <=>
           ("request" \in inv[i].reads /\ inv[i].request.fail = "none")
      /\ exp[i].body.response.body # Null <=>
           ("response" \in inv[i].reads /\ inv[i].response.fail = "none")
      /\ exp[i].body.request.body = Null => exp[i].body.request.truncated = FALSE
      /\ exp[i].body.response.body = Null => exp[i].body.response.truncated = FALSE

\* a text/plain request under the default list, answered without a
\* Content-Type: a record with neither body was posted
C20_Witness ==
  \E i \in Invocations :
    /\ pc[i] = "done" /\ inv[i].route = "capture"
    /\ inv[i].request.headers.content_type = "text/plain"
    /\ inv[i].response.headers.content_type = Undefined
    /\ inv[i].reads = {}
    /\ exp[i].posts = 1
    /\ exp[i].body.request.body = Null /\ exp[i].body.response.body = Null
    /\ ~exp[i].body.request.truncated /\ ~exp[i].body.response.truncated

====
